---------------------------- MODULE Spec2Model ----------------------------
(***************************************************************************)
(* Model of resume-analyser/app.py: the submit handler (index), the        *)
(* insight engine (compute_insights), the rule-based chat responder (chat) *)
(* and the session-backed report/chart handlers.                           *)
(*                                                                         *)
(* Python str values are TLA+ strings; Len, \o and SubSeq act on them      *)
(* character by character.  Python lists, tuples and insertion-ordered     *)
(* dicts are sequences (a dict is the sequence of its <<key, value>>       *)
(* items, {} is << >>); the small dicts with fixed keys are records.       *)
(* String literals keep the program's text except for characters outside   *)
(* ASCII: emoji are dropped and the bullet is written "*".                 *)
(***************************************************************************)
EXTENDS Integers, Sequences, FiniteSets, TLC

VARIABLES
    users,          \* User table: username -> password   (app.py 26-36)
    analyses,       \* Analysis table, in insertion order  (app.py 39-45)
    current_user,   \* flask_login's user of the browser session, or Anonymous
    session,        \* flask session keys written by index (app.py 269-271)
    cache_owner,    \* history: the user whose submission wrote the session keys
    response,       \* what the last request returned
    args,           \* inputs of the function under study (function specifications)
    result          \* its output

vars == <<users, analyses, current_user, session, cache_owner, response, args, result>>

---------------------------------------------------------------------------
(* Bounds of the model *)

MaxPages == 2       \* pages of an uploaded document
MaxAnalyses == 2    \* rows the Analysis table may hold
MaxReqLen == 2      \* length of a required-skill list given to the scoring step

---------------------------------------------------------------------------
(* Python built-ins used by the program *)

\* set(xs)
Range(xs) == {xs[i] : i \in 1..Len(xs)}

\* xs[:n]
Take(xs, n) == SubSeq(xs, 1, IF Len(xs) < n THEN Len(xs) ELSE n)

\* `s in t` for two str values
Contains(t, s) ==
    \E i \in 1..(Len(t) - Len(s) + 1) : SubSeq(t, i, i + Len(s) - 1) = s

\* t.startswith(s)
StartsWith(t, s) == Len(t) >= Len(s) /\ SubSeq(t, 1, Len(s)) = s

\* any(kw in msg for kw in kws)
AnyIn(kws, msg) == \E i \in 1..Len(kws) : Contains(msg, kws[i])

UpperChars == "ABCDEFGHIJKLMNOPQRSTUVWXYZ"
LowerChars == "abcdefghijklmnopqrstuvwxyz"

LowerChar(c) ==
    IF \E i \in 1..Len(UpperChars) : SubSeq(UpperChars, i, i) = c
    THEN LET i == CHOOSE j \in 1..Len(UpperChars) : SubSeq(UpperChars, j, j) = c
         IN  SubSeq(LowerChars, i, i)
    ELSE c

RECURSIVE Lower(_)
\* s.lower()
Lower(s) ==
    IF Len(s) = 0 THEN s
    ELSE LowerChar(SubSeq(s, 1, 1)) \o Lower(SubSeq(s, 2, Len(s)))

IsSpace(c) == c \in {" ", "\t", "\n"}

\* s.strip()
Strip(s) ==
    LET keep == {i \in 1..Len(s) : ~IsSpace(SubSeq(s, i, i))}
    IN  IF keep = {} THEN ""
        ELSE LET lo == CHOOSE i \in keep : \A j \in keep : i <= j
                 hi == CHOOSE i \in keep : \A j \in keep : j <= i
             IN  SubSeq(s, lo, hi)

Digits == "0123456789"

IsDigit(c) == \E i \in 1..Len(Digits) : SubSeq(Digits, i, i) = c

DigitValue(c) == (CHOOSE i \in 1..Len(Digits) : SubSeq(Digits, i, i) = c) - 1

RECURSIVE DecimalValue(_)
DecimalValue(s) ==
    IF Len(s) = 0 THEN 0
    ELSE 10 * DecimalValue(SubSeq(s, 1, Len(s) - 1)) + DigitValue(SubSeq(s, Len(s), Len(s)))

AllDigits(s) == Len(s) > 0 /\ \A i \in 1..Len(s) : IsDigit(SubSeq(s, i, i))

\* int(s) for a str: surrounding whitespace, an optional sign, decimal digits;
\* ok is FALSE where int raises ValueError
PyInt(s) ==
    LET t == Strip(s)
        signed == Len(t) > 0 /\ SubSeq(t, 1, 1) \in {"+", "-"}
        body == IF signed THEN SubSeq(t, 2, Len(t)) ELSE t
    IN  IF ~AllDigits(body) THEN [ok |-> FALSE, value |-> 0]
        ELSE IF signed /\ SubSeq(t, 1, 1) = "-"
             THEN [ok |-> TRUE, value |-> 0 - DecimalValue(body)]
             ELSE [ok |-> TRUE, value |-> DecimalValue(body)]

\* ", ".join(xs) for a list of str
RECURSIVE Join(_)
Join(xs) ==
    IF Len(xs) = 0 THEN ""
    ELSE IF Len(xs) = 1 THEN xs[1]
    ELSE xs[1] \o ", " \o Join(Tail(xs))

\* sorted(items, key=...)[::-1] in place of reverse=True: equal keys come out in
\* reverse order
InsertDesc_reversed_ties(sorted, item) ==
    LET n == Cardinality({i \in 1..Len(sorted) : sorted[i][2] > item[2]})
    IN  SubSeq(sorted, 1, n) \o <<item>> \o SubSeq(sorted, n + 1, Len(sorted))

\* the stable sort sorted(items, key=lambda x: x[2], reverse=True): an item goes
\* after every item already placed whose key is at least its own
InsertDesc(sorted, item) ==
    LET n == Cardinality({i \in 1..Len(sorted) : sorted[i][2] >= item[2]})
    IN  SubSeq(sorted, 1, n) \o <<item>> \o SubSeq(sorted, n + 1, Len(sorted))

RECURSIVE SortedDesc(_)
SortedDesc(items) ==
    IF Len(items) = 0 THEN << >>
    ELSE InsertDesc(SortedDesc(SubSeq(items, 1, Len(items) - 1)), items[Len(items)])

---------------------------------------------------------------------------
(* The fixed tables *)

SKILLS ==
    << "python", "java", "c", "c++", "html", "css", "javascript",
       "sql", "machine learning", "data science", "flask", "django" >>

\* JOB_ROLES.items(): <<role, req_skills>> in definition order
JOB_ROLES ==
    << << "Software Developer", << "python", "java", "c++" >> >>,
       << "Web Developer", << "html", "css", "javascript", "flask" >> >>,
       << "Data Scientist", << "python", "machine learning", "data science", "sql" >> >> >>

\* COURSE_RECOMMENDATIONS.items(): <<role, titles of its courses>>
COURSE_RECOMMENDATIONS ==
    << << "Software Developer",
          << "CS50's Introduction to Computer Science (edX)",
             "Algorithms and Data Structures (Coursera)" >> >>,
       << "Web Developer",
          << "The Web Developer Bootcamp (Udemy)",
             "Front-End Web Development with React (Coursera)" >> >>,
       << "Data Scientist",
          << "IBM Data Science Professional Certificate (Coursera)",
             "Machine Learning by Andrew Ng (Coursera)" >> >> >>

\* d.get(key, default) for a dict kept as a sequence of items
DictGet(d, key, default) ==
    IF \E i \in 1..Len(d) : d[i][1] = key
    THEN d[CHOOSE i \in 1..Len(d) : d[i][1] = key][2]
    ELSE default


---------------------------------------------------------------------------
(* extract_text and the analysis steps of index *)

\* request.files["resume"]: `present` is whether the request carries the file,
\* `valid` whether pdfplumber can open it; `pages` holds what page.extract_text()
\* returns for each page ("" for a page without text).
RECURSIVE ConcatPages(_)
ConcatPages(pages) ==
    IF Len(pages) = 0 THEN ""
    ELSE (IF Len(pages[1]) > 0 THEN pages[1] ELSE "") \o ConcatPages(Tail(pages))

\* extract_text(file) for a file pdfplumber can open
extract_text(file) == Lower(ConcatPages(file.pages))

\* whole-word matching in place of substring matching
ExtractSkills_whole_words(text) ==
    SelectSeq(SKILLS, LAMBDA skill : Contains(" " \o text \o " ", " " \o skill \o " "))

\* for skill in SKILLS: if skill in text: skills_found.append(skill)
ExtractSkills(text) == SelectSeq(SKILLS, LAMBDA skill : Contains(text, skill))

\* len(set(skills_found) & set(req_skills))
Matched(skills_found, req_skills) ==
    Cardinality(Range(skills_found) \cap Range(req_skills))

\* math.ceil(...) in place of int(...)
ScoreOf_ceiling(skills_found, req_skills) ==
    IF Len(req_skills) = 0
    THEN [ok |-> FALSE, value |-> 0]
    ELSE [ok |-> TRUE,
          value |-> (Matched(skills_found, req_skills) * 100 + Len(req_skills) - 1)
                        \div Len(req_skills)]

\* int((matched / len(req_skills)) * 100); the division raises ZeroDivisionError
\* for an empty req_skills.  With len(req_skills) < 40 the float product truncates
\* to the integer quotient computed here.
ScoreOf(skills_found, req_skills) ==
    IF Len(req_skills) = 0
    THEN [ok |-> FALSE, value |-> 0]
    ELSE [ok |-> TRUE,
          value |-> (Matched(skills_found, req_skills) * 100) \div Len(req_skills)]

\* role_scores after the loop over JOB_ROLES.items(), as its items
RoleScores(skills_found) ==
    [i \in 1..Len(JOB_ROLES) |->
        << JOB_ROLES[i][1], ScoreOf(skills_found, JOB_ROLES[i][2]).value >>]

\* {r: s for r, s in role_scores.items() if s >= min_score}
FilterRoles(role_scores, min_score) ==
    SelectSeq(role_scores, LAMBDA rs : rs[2] >= min_score)

\* the max_roles cut applied to sorted_roles
LimitRoles(sorted_roles, max_roles) ==
    IF max_roles = "top1" THEN Take(sorted_roles, 1)
    ELSE IF max_roles = "top3" THEN Take(sorted_roles, 3)
    ELSE sorted_roles

\* sorted_roles of a submission
SortedRoles(skills_found, min_score, max_roles) ==
    LimitRoles(SortedDesc(FilterRoles(RoleScores(skills_found), min_score)), max_roles)

---------------------------------------------------------------------------
(* compute_insights *)

FeedbackLow == "Your resume needs more skill keywords. Focus on learning foundational skills."
FeedbackMid == "Good progress! Build a portfolio with projects to strengthen your profile."
FeedbackStrong == "Strong resume! Focus on specialization in your target role."
FeedbackTop == "Excellent! You have a well-rounded skill set. Keep learning advanced topics."

\* <= in place of < at each threshold
Feedback_inclusive(resume_score) ==
    IF resume_score <= 30 THEN FeedbackLow
    ELSE IF resume_score <= 60 THEN FeedbackMid
    ELSE IF resume_score <= 80 THEN FeedbackStrong
    ELSE FeedbackTop

\* the if/elif chain on resume_score
Feedback(resume_score) ==
    IF resume_score < 30 THEN FeedbackLow
    ELSE IF resume_score < 60 THEN FeedbackMid
    ELSE IF resume_score < 80 THEN FeedbackStrong
    ELSE FeedbackTop

ResumeScore(skills_found) ==
    IF Len(SKILLS) > 0 THEN (Len(skills_found) * 100) \div Len(SKILLS) ELSE 0

\* [s for s in req_skills if s not in skills_found]
Missing(skills_found, req_skills) ==
    SelectSeq(req_skills, LAMBDA s : s \notin Range(skills_found))

\* gaps: role -> {'missing', 'count'}
SkillGaps(skills_found) ==
    [i \in 1..Len(JOB_ROLES) |->
        << JOB_ROLES[i][1],
           [missing |-> Missing(skills_found, JOB_ROLES[i][2]),
            count |-> Len(Missing(skills_found, JOB_ROLES[i][2]))] >>]

RECURSIVE RequiredSkills(_)
\* every req_skills entry, in the order the nested loops over JOB_ROLES visit them
RequiredSkills(roles) ==
    IF Len(roles) = 0 THEN << >> ELSE roles[1][2] \o RequiredSkills(Tail(roles))

\* d[k] = 1 in place of d[k] = d.get(k, 0) + 1
CountOne_no_increment(d, k) ==
    IF \E i \in 1..Len(d) : d[i][1] = k THEN d ELSE Append(d, << k, 1 >>)

\* d[k] = d.get(k, 0) + 1
CountOne(d, k) ==
    IF \E i \in 1..Len(d) : d[i][1] = k
    THEN [i \in 1..Len(d) |-> IF d[i][1] = k THEN << k, d[i][2] + 1 >> ELSE d[i]]
    ELSE Append(d, << k, 1 >>)

RECURSIVE CountAll(_)
CountAll(ks) ==
    IF Len(ks) = 0 THEN << >>
    ELSE CountOne(CountAll(SubSeq(ks, 1, Len(ks) - 1)), ks[Len(ks)])

Weaknesses(skills_found) ==
    Take(SortedDesc(CountAll(Missing(skills_found, RequiredSkills(JOB_ROLES)))), 5)

TrendingSkills == Take(SortedDesc(CountAll(RequiredSkills(JOB_ROLES))), 5)

LearningPaths(skills_found, sorted_roles) ==
    LET top == Take(sorted_roles, 3)
        gaps == SkillGaps(skills_found)
        none == [missing |-> << >>, count |-> 0]
    IN  [i \in 1..Len(top) |->
            LET missing_skills == DictGet(gaps, top[i][1], none).missing
            IN  << top[i][1],
                   [steps |-> [j \in 1..Len(Take(missing_skills, 3)) |->
                                   "Learn " \o missing_skills[j]],
                    courses |-> Take(DictGet(COURSE_RECOMMENDATIONS, top[i][1], << >>), 2)] >>]

RoleComparison(skills_found, sorted_roles) ==
    LET gaps == SkillGaps(skills_found)
        none == [missing |-> << >>, count |-> 0]
    IN  [i \in 1..Len(sorted_roles) |->
            [role |-> sorted_roles[i][1],
             score |-> sorted_roles[i][2],
             gap_count |-> DictGet(gaps, sorted_roles[i][1], none).count]]

\* the insights dict, as its items in insertion order
compute_insights(skills_found, sorted_roles) ==
    << << "resume_score", ResumeScore(skills_found) >>,
       << "skill_gaps", SkillGaps(skills_found) >>,
       << "strengths", Take(skills_found, 5) >>,
       << "weaknesses", Weaknesses(skills_found) >>,
       << "learning_paths", LearningPaths(skills_found, sorted_roles) >>,
       << "trending_skills", TrendingSkills >>,
       << "proficiency",
          [i \in 1..Len(skills_found) |-> << skills_found[i], "Intermediate" >>] >>,
       << "role_comparison", RoleComparison(skills_found, sorted_roles) >>,
       << "feedback", Feedback(ResumeScore(skills_found)) >> >>

---------------------------------------------------------------------------
(* The submit handler, index, up to the point where it persists *)

\* a form field the request does not carry
Absent == "<absent>"

\* request.form.get(key, default)
FormGet(form, key, default) == IF form[key] = Absent THEN default ELSE form[key]

\* try: int(request.form.get("min_score", "0")) except Exception: 0
MinScore(form) ==
    LET parsed == PyInt(FormGet(form, "min_score", "0"))
    IN  IF parsed.ok THEN parsed.value ELSE 0

\* json.dumps of a list of str and of a list of (str, int) pairs
JsonStrings(xs) == "[" \o Join([i \in 1..Len(xs) |-> "\"" \o xs[i] \o "\""]) \o "]"
\* json.dumps(sorted_roles[:2])
JsonPairs_first_two(ps) ==
    "[" \o Join([i \in 1..Len(Take(ps, 2)) |->
                    "[\"" \o ps[i][1] \o "\", " \o ToString(ps[i][2]) \o "]"]) \o "]"

JsonPairs(ps) ==
    "[" \o Join([i \in 1..Len(ps) |->
                    "[\"" \o ps[i][1] \o "\", " \o ToString(ps[i][2]) \o "]"]) \o "]"

\* json.loads of what json.dumps wrote for a list of str and for a list of
\* (str, int) pairs: no string of SKILLS or JOB_ROLES needs an escape, and a
\* reloaded pair is a two-element list

\* the closing quote of the JSON string whose opening quote is at i
QuoteEnd(s, i) ==
    CHOOSE j \in (i + 1)..Len(s) :
        SubSeq(s, j, j) = "\"" /\ \A k \in (i + 1)..(j - 1) : SubSeq(s, k, k) # "\""

\* the last digit of the JSON number that starts at i
DigitsEnd(s, i) ==
    CHOOSE j \in i..Len(s) :
        /\ \A k \in i..j : IsDigit(SubSeq(s, k, k))
        /\ j = Len(s) \/ ~IsDigit(SubSeq(s, j + 1, j + 1))

\* the position of the next element after the one that ends at e
NextElement(s, e) ==
    IF e + 2 <= Len(s) /\ SubSeq(s, e + 1, e + 2) = ", " THEN e + 3 ELSE e + 1

RECURSIVE LoadStringsFrom(_, _)
\* the string between the quotes at i and j, then the rest of the array
StringThen(s, i, j) ==
    << SubSeq(s, i + 1, j - 1) >> \o LoadStringsFrom(s, NextElement(s, j))

\* the elements of an array of strings from position i on
LoadStringsFrom(s, i) ==
    IF SubSeq(s, i, i) = "]" THEN << >> ELSE StringThen(s, i, QuoteEnd(s, i))

\* json.loads(latest.skills_found)
JsonLoadStrings(s) == LoadStringsFrom(s, 2)

RECURSIVE LoadPairsFrom(_, _)
\* the pair opened at i whose string closes at j and whose number ends at e
PairEnd(s, i, j, e) ==
    << << SubSeq(s, i + 2, j - 1), DecimalValue(SubSeq(s, j + 3, e)) >> >>
    \o LoadPairsFrom(s, NextElement(s, e + 1))

PairThen(s, i, j) == PairEnd(s, i, j, DigitsEnd(s, j + 3))

\* the elements of an array of [str, int] arrays from position i on
LoadPairsFrom(s, i) ==
    IF SubSeq(s, i, i) = "]" THEN << >> ELSE PairThen(s, i, QuoteEnd(s, i + 1))

\* json.loads(latest.roles_scores)
JsonLoadPairs(s) == LoadPairsFrom(s, 2)

NoAnalysis ==
    [status |-> 200, min_score |-> 0, role_scores |-> << >>, skills |-> << >>,
     roles |-> << >>, show_bars |-> FALSE, insights |-> << >>,
     roles_chart |-> [labels |-> << >>, scores |-> << >>],
     skills_chart |-> [labels |-> << >>, counts |-> << >>]]

\* The body of index for a POST: 400 when request.files has no "resume", 500 when
\* extract_text or the scoring loop raises, else the values the handler computes:
\* role_scores is the dict after the scoring loop, roles is sorted_roles.
Analyze(file, form) ==
    IF ~file.present THEN [NoAnalysis EXCEPT !.status = 400]
    ELSE IF ~file.valid THEN [NoAnalysis EXCEPT !.status = 500]
    ELSE LET skills_found == ExtractSkills(extract_text(file))
             min_score == MinScore(form)
             sorted_roles ==
                 SortedRoles(skills_found, min_score, FormGet(form, "max_roles", "all"))
         IN  IF \E i \in 1..Len(JOB_ROLES) : ~ScoreOf(skills_found, JOB_ROLES[i][2]).ok
             THEN [NoAnalysis EXCEPT !.status = 500]
             ELSE [status |-> 200,
                   min_score |-> min_score,
                   role_scores |-> RoleScores(skills_found),
                   skills |-> skills_found,
                   roles |-> sorted_roles,
                   show_bars |-> (FormGet(form, "show_bars", Absent) = "on"),
                   insights |-> compute_insights(skills_found, sorted_roles),
                   roles_chart |->
                       [labels |-> [i \in 1..Len(sorted_roles) |-> sorted_roles[i][1]],
                        scores |-> [i \in 1..Len(sorted_roles) |-> sorted_roles[i][2]]],
                   skills_chart |->
                       [labels |-> skills_found,
                        counts |-> [i \in 1..Len(skills_found) |-> 1]]]

---------------------------------------------------------------------------
(* difflib.SequenceMatcher(None, a, b).ratio(), for b shorter than 200 characters *)
(* (no automatic junk)                                                          *)

HasBlock(a, b, k) ==
    \E i \in 1..(Len(a) - k + 1), j \in 1..(Len(b) - k + 1) :
        SubSeq(a, i, i + k - 1) = SubSeq(b, j, j + k - 1)

\* the length of the longest block a and b share; 0 when they share no character
MatchSize(a, b, n) ==
    CHOOSE x \in 0..n : (x = 0 \/ HasBlock(a, b, x)) /\ (x = n \/ ~HasBlock(a, b, x + 1))

\* a[i..i+k-1] occurs in b
StartsAt(a, b, k, i) ==
    \E j \in 1..(Len(b) - k + 1) : SubSeq(a, i, i + k - 1) = SubSeq(b, j, j + k - 1)

\* the earliest start in a of a block of length k shared with b
MatchInA(a, b, k) ==
    CHOOSE x \in 1..(Len(a) - k + 1) :
        StartsAt(a, b, k, x) /\ \A y \in 1..(x - 1) : ~StartsAt(a, b, k, y)

\* the earliest start in b of the block a[i..i+k-1]
MatchInB(a, b, k, i) ==
    CHOOSE x \in 1..(Len(b) - k + 1) :
        /\ SubSeq(a, i, i + k - 1) = SubSeq(b, x, x + k - 1)
        /\ \A y \in 1..(x - 1) : SubSeq(a, i, i + k - 1) # SubSeq(b, y, y + k - 1)

MatchFrom(a, b, k, i) == << i, MatchInB(a, b, k, i), k >>

MatchOfSize(a, b, k) == IF k = 0 THEN << 0, 0, 0 >> ELSE MatchFrom(a, b, k, MatchInA(a, b, k))

\* find_longest_match: <<i, j, k>> with a[i..i+k-1] = b[j..j+k-1], k maximal, then
\* i minimal, then j minimal; k = 0 when a and b share no character
LongestMatch(a, b) ==
    MatchOfSize(a, b, MatchSize(a, b, IF Len(a) < Len(b) THEN Len(a) ELSE Len(b)))

RECURSIVE MatchingChars(_, _)
\* the block m, then the blocks to its left and to its right
MatchingAround(a, b, m) ==
    IF m[3] = 0 THEN 0
    ELSE m[3]
         + MatchingChars(SubSeq(a, 1, m[1] - 1), SubSeq(b, 1, m[2] - 1))
         + MatchingChars(SubSeq(a, m[1] + m[3], Len(a)), SubSeq(b, m[2] + m[3], Len(b)))

\* the total size of get_matching_blocks(): the longest match, then the same to its
\* left and to its right
MatchingChars(a, b) ==
    IF Len(a) = 0 \/ Len(b) = 0 THEN 0 ELSE MatchingAround(a, b, LongestMatch(a, b))

\* ratio() = 2.0 * M / T as the fraction <<2M, T>>; T > 0 in every use
Ratio(a, b) == << 2 * MatchingChars(a, b), Len(a) + Len(b) >>

\* p > q for two such fractions
RatioGreater(p, q) == p[1] * q[2] > q[1] * p[2]

\* 0.0 and 0.35
RatioZero == << 0, 1 >>
RatioThreshold == << 35, 100 >>

---------------------------------------------------------------------------
(* chat *)

UpperChar(c) ==
    IF \E i \in 1..Len(LowerChars) : SubSeq(LowerChars, i, i) = c
    THEN LET i == CHOOSE j \in 1..Len(LowerChars) : SubSeq(LowerChars, j, j) = c
         IN  SubSeq(UpperChars, i, i)
    ELSE c

IsLetter(c) ==
    \E i \in 1..Len(LowerChars) : SubSeq(LowerChars, i, i) = c \/ SubSeq(UpperChars, i, i) = c

RECURSIVE TitleFrom(_, _)
TitleFrom(s, i) ==
    IF i > Len(s) THEN ""
    ELSE LET c == SubSeq(s, i, i)
             starts == i = 1 \/ ~IsLetter(SubSeq(s, i - 1, i - 1))
         IN  (IF starts THEN UpperChar(c) ELSE LowerChar(c)) \o TitleFrom(s, i + 1)

\* s.title()
Title(s) == TitleFrom(s, 1)

career_keywords ==
    << "become", "how to become", "want to be", "i want to be", "want to become",
       "how do i become", "path to", "career in" >>
analysis_keywords ==
    << "detect", "skill", "skills", "found", "score", "resume analysis", "what", "my resume" >>
role_keywords == << "role", "job", "match", "which role", "best role", "suitable", "fit" >>
gap_keywords ==
    << "gap", "learn", "missing", "improve", "need", "should i learn", "what to learn" >>
advice_keywords == << "advice", "help", "how do i", "tips", "improve", "better", "progress" >>
market_keywords ==
    << "market", "demand", "trend", "popular", "future", "growing", "industry" >>
learning_keywords == << "course", "learning", "study", "tutorial", "roadmap", "path" >>

\* no role resolved
NoRole == ""

\* if score > best_score: best_score = score; best_role = role
Better(role, score, best) == IF RatioGreater(score, best[2]) THEN << role, score >> ELSE best

RECURSIVE BestByRatio(_, _, _)
\* the loop over JOB_ROLES.keys() keeping the strictly best ratio: <<best_role, best_score>>
BestByRatio(roles, msg_lower, best) ==
    IF Len(roles) = 0 THEN best
    ELSE BestByRatio(Tail(roles), msg_lower,
                     Better(roles[1][1], Ratio(Lower(roles[1][1]), msg_lower), best))

\* the second loop: the first role whose lower-cased name is in the message, else
\* best_role is left as it was
FirstContained(msg_lower, best_role) ==
    IF \E i \in 1..Len(JOB_ROLES) : Contains(msg_lower, Lower(JOB_ROLES[i][1]))
    THEN JOB_ROLES[CHOOSE i \in 1..Len(JOB_ROLES) :
                       /\ Contains(msg_lower, Lower(JOB_ROLES[i][1]))
                       /\ \A j \in 1..(i - 1) : ~Contains(msg_lower, Lower(JOB_ROLES[j][1]))][1]
    ELSE best_role

\* if not best_role or best_score < 0.35: run the second loop
RoleAfterFallback(msg_lower, best) ==
    IF best[1] = NoRole \/ RatioGreater(RatioThreshold, best[2])
    THEN FirstContained(msg_lower, best[1])
    ELSE best[1]

\* best_role when the career-goal branch decides its reply
ResolveRole(msg_lower) ==
    RoleAfterFallback(msg_lower, BestByRatio(JOB_ROLES, msg_lower, << NoRole, RatioZero >>))

RECURSIVE Lines(_)
\* one "* title\n" line per title
Lines(titles) ==
    IF Len(titles) = 0 THEN "" ELSE "* " \o titles[1] \o "\n" \o Lines(Tail(titles))

\* the reply for the resolved role, its skills and its courses
CareerPath(best_role, skills, courses) ==
    IF best_role # NoRole
    THEN "Path to " \o best_role \o ":\n\nRequired skills: " \o Join(skills) \o "\n\n"
         \o "Learning roadmap:\n"
         \o "1. Master fundamentals (start with " \o Title(skills[1]) \o ")\n"
         \o "2. Build 2-3 portfolio projects\n"
         \o "3. Learn industry best practices\n"
         \o "4. Network and contribute to open source\n\n"
         \o (IF Len(courses) > 0
             THEN "Recommended courses:\n" \o Lines(Take(courses, 2))
             ELSE "")
    ELSE "I can guide you on: Software Developer, Web Developer, or Data Scientist. Which role interests you?"

RoleReply(best_role) ==
    CareerPath(best_role, DictGet(JOB_ROLES, best_role, << >>),
               DictGet(COURSE_RECOMMENDATIONS, best_role, << >>))

CareerReply(msg_lower) == RoleReply(ResolveRole(msg_lower))

Greeting ==
    "Hello! Ask me anything about resumes, career advice, skills, job market insights, or how to improve your profile."
NoResumePrompt ==
    "No resume analyzed yet. Upload a PDF resume and click 'Analyze' to see detailed insights about your skills, score, and career matches!"
NoRolesPrompt == "Upload your resume to see which job roles match your skills best!"
NoGapsPrompt == "Upload and analyze a resume to get personalized skill recommendations!"
StaticTrends ==
    "Currently trending: Python, JavaScript, Cloud (AWS/Azure), Data Science, AI/ML, DevOps"
AdviceReply ==
    "Career Advice:\n\n"
    \o "Build a strong portfolio (projects > grades)\n"
    \o "Contribute to open source\n"
    \o "Network on LinkedIn & GitHub\n"
    \o "Learn one skill deeply, then expand\n"
    \o "Get internships or freelance experience\n"
    \o "Keep your resume updated & concise\n\n"
    \o "What specific area do you want help with?"

RECURSIVE CourseListing(_)
CourseListing(table) ==
    IF Len(table) = 0 THEN ""
    ELSE table[1][1] \o ":\n" \o Lines(Take(table[1][2], 1)) \o CourseListing(Tail(table))

LearningReply ==
    "Learning Paths Available:\n\n" \o CourseListing(COURSE_RECOMMENDATIONS)
    \o "\nCheck 'Learning Paths' in your Detailed Report!"

FallbackReply(msg) ==
    "I can help with:\n\n"
    \o "Resume Analysis - Ask 'What skills did you detect?'\n"
    \o "Career Guidance - Ask 'How do I become a Data Scientist?'\n"
    \o "Learning - Ask 'What courses should I take?'\n"
    \o "Job Matches - Ask 'Which roles match my skills?'\n"
    \o "Skill Gaps - Ask 'What skills should I learn?'\n"
    \o "Tips - Ask 'How do I improve my career?'\n\n"
    \o "Your question: '" \o msg \o "' - Try being more specific!"

RECURSIVE TupleLines(_)
\* f"* {skill}\n" for the (skill, count) tuples of trending_skills
TupleLines(pairs) ==
    IF Len(pairs) = 0 THEN ""
    ELSE "* ('" \o pairs[1][1] \o "', " \o ToString(pairs[1][2]) \o ")\n"
         \o TupleLines(Tail(pairs))

Replied(rule, text) == [status |-> 200, rule |-> rule, reply |-> text, raised |-> ""]

\* an exception leaves the handler: Flask answers 500
Raised(rule, exception) == [status |-> 500, rule |-> rule, reply |-> "", raised |-> exception]

\* the summary built without the `if insights` test
AnalysisBranch_unguarded(insights, skills_found) ==
    Replied("resume_analysis",
        "Resume Analysis Summary:\n\n"
        \o "Resume Score: " \o ToString(DictGet(insights, "resume_score", 0)) \o "%\n"
        \o "Skills detected: " \o ToString(Len(skills_found)) \o " total\n\n"
        \o "\nFeedback: " \o DictGet(insights, "feedback", "Good resume structure.") \o "\n")

\* the branch taken on a resume-analysis question
AnalysisBranch(insights, skills_found) ==
    IF insights = << >> THEN Replied("resume_analysis", NoResumePrompt)
    ELSE IF DictGet(insights, "weaknesses", << >>) # << >>
         \* ", ".join(...) over (skill, count) tuples
         THEN Raised("resume_analysis", "TypeError")
         ELSE Replied("resume_analysis",
                  "Resume Analysis Summary:\n\n"
                  \o "Resume Score: " \o ToString(DictGet(insights, "resume_score", 0)) \o "%\n"
                  \o "Skills detected: " \o ToString(Len(skills_found)) \o " total\n\n"
                  \o (IF DictGet(insights, "strengths", << >>) # << >>
                      THEN "Strengths: " \o Join(Take(DictGet(insights, "strengths", << >>), 3))
                           \o "\n"
                      ELSE "")
                  \o "\nFeedback: " \o DictGet(insights, "feedback", "Good resume structure.")
                  \o "\n")

\* the branch taken on a role-matching question
RoleBranch(insights) ==
    IF insights # << >> /\ DictGet(insights, "role_comparison", << >>) # << >>
    \* role_comparison is a list: it has no .items()
    THEN Raised("role_matching", "AttributeError")
    ELSE Replied("role_matching", NoRolesPrompt)

\* the branch taken on a skill-gap question
GapBranch(insights) ==
    IF insights # << >> /\ DictGet(insights, "skill_gaps", << >>) # << >>
    \* every value of skill_gaps is a non-empty dict: gaps[:3] slices a dict
    \* (TypeError; KeyError from Python 3.12 on)
    THEN Raised("skill_gap", "TypeError")
    ELSE Replied("skill_gap", NoGapsPrompt)

\* the branch taken on a market question
MarketBranch(insights) ==
    IF insights # << >> /\ DictGet(insights, "trending_skills", << >>) # << >>
    THEN Replied("market_trend",
             "Trending Skills & Market Insights:\n\n" \o "Hot Skills Right Now:\n"
             \o TupleLines(Take(DictGet(insights, "trending_skills", << >>), 5))
             \o "\nFocus on these for better job prospects!")
    ELSE Replied("market_trend", StaticTrends)

\* the cascade of chat over the stripped message, its lower-cased form and the context
Cascade(msg, msg_lower, insights, skills_found) ==
    IF msg = "" THEN Replied("empty", Greeting)
    ELSE IF AnyIn(career_keywords, msg_lower) \/ StartsWith(msg_lower, "how to")
    THEN Replied("career_goal", CareerReply(msg_lower))
    ELSE IF AnyIn(analysis_keywords, msg_lower) THEN AnalysisBranch(insights, skills_found)
    ELSE IF AnyIn(role_keywords, msg_lower) THEN RoleBranch(insights)
    ELSE IF AnyIn(gap_keywords, msg_lower) THEN GapBranch(insights)
    ELSE IF AnyIn(advice_keywords, msg_lower) THEN Replied("general_advice", AdviceReply)
    ELSE IF AnyIn(market_keywords, msg_lower) THEN MarketBranch(insights)
    ELSE IF AnyIn(learning_keywords, msg_lower) THEN Replied("learning", LearningReply)
    ELSE Replied("fallback", FallbackReply(msg))

\* msg_lower = msg.lower(); insights and skills_found from the session
Answer(msg, sess) ==
    Cascade(msg, Lower(msg), DictGet(sess, "insights", << >>),
            DictGet(sess, "skills_found", << >>))

\* chat for the JSON field `message` (Absent when the body has none) and the
\* session of the request
ChatReply(message, sess) == Answer(Strip(IF message = Absent THEN "" ELSE message), sess)

---------------------------------------------------------------------------
(* Inputs *)

RECURSIVE SeqsUpTo(_, _)
\* the sequences over S of length at most n
SeqsUpTo(S, n) ==
    IF n = 0 THEN {<< >>}
    ELSE LET shorter == SeqsUpTo(S, n - 1)
         IN  shorter \cup {Append(q, x) : q \in {r \in shorter : Len(r) = n - 1}, x \in S}

ReferenceText == "python sql machine learning"

AllSkillsText == "Python Java C++ HTML CSS JavaScript Flask SQL Machine Learning Data Science"

\* what a page of an uploaded document may read
PageTexts ==
    { "", "Java", "Script", "C++ and CSS", "CSS", "Scala", "SQL;", ReferenceText, AllSkillsText }

Resume(pages) == [present |-> TRUE, valid |-> TRUE, filename |-> "resume.pdf", pages |-> pages]

NoUpload == [present |-> FALSE, valid |-> FALSE, filename |-> "", pages |-> << >>]

Unreadable == [present |-> TRUE, valid |-> FALSE, filename |-> "notes.txt", pages |-> << >>]

Documents == {Resume(p) : p \in SeqsUpTo(PageTexts, MaxPages)} \cup {Unreadable, NoUpload}

Forms ==
    [max_roles : {Absent, "all", "top1", "top3", "top5"},
     min_score : {Absent, "25", " 34 ", "-1", "high"},
     show_bars : {Absent, "on"}]

NoResult == [computed |-> FALSE]

\* d[key] = value for a dict kept as a sequence of items
DictSet(d, key, value) ==
    IF \E i \in 1..Len(d) : d[i][1] = key
    THEN [i \in 1..Len(d) |-> IF d[i][1] = key THEN << key, value >> ELSE d[i]]
    ELSE Append(d, << key, value >>)

\* session after the three assignments that end an authenticated submission
SessionAfter(sess, out) ==
    DictSet(DictSet(DictSet(sess, "roles_chart", out.roles_chart),
                    "skills_chart", out.skills_chart),
            "insights", out.insights)

DefaultForm == [max_roles |-> Absent, min_score |-> Absent, show_bars |-> Absent]

\* the `message` field of a chat request
ChatMessages ==
    { Absent, "", "   ",
      "What skills did you detect?", "what skills did you detect", "what is my score",
      "Which roles match my skills?", "Which roles match?", "best job for me",
      "What skills should I learn?", "improve", "How can I improve", "missing pieces",
      "How do I improve my career?", "any tips", "help me",
      "market trends", "growing industry",
      "What courses should I take?", "courses", "a roadmap please",
      "How do I become a Data Scientist?", "how to improve", "I want to be a web developer",
      "path to success", " Hello there ", "thanks",
      "i want to become something great some day, maybe a web developer or so" }

\* sessions a chat request may come with: none cached, or the cache of a submission
ChatSessions ==
    { << >> } \cup
    { SessionAfter(<< >>, Analyze(Resume(<< t >>), f)) :
        t \in {"Java", ReferenceText, AllSkillsText},
        f \in {DefaultForm, [DefaultForm EXCEPT !.min_score = "101"]} }

---------------------------------------------------------------------------
(* State after construction: empty tables, an anonymous browser session *)

Anonymous == "<anonymous>"

WebInit ==
    /\ users = << >>
    /\ analyses = << >>
    /\ current_user = Anonymous
    /\ session = << >>
    /\ cache_owner = Anonymous
    /\ response = [handler |-> "none", status |-> 0]

WebUnchanged == UNCHANGED <<users, analyses, current_user, session, cache_owner, response>>

---------------------------------------------------------------------------
(* SubmitSpec: the analysis of one submitted document *)

SubmitInit ==
    /\ WebInit
    /\ args \in [file : Documents, form : Forms]
    /\ result = NoResult

Submit ==
    /\ ~result.computed
    /\ result' = [computed |-> TRUE, out |-> Analyze(args.file, args.form)]
    /\ UNCHANGED args
    /\ WebUnchanged

SubmitNext == Submit

SubmitSpec == SubmitInit /\ [][SubmitNext]_vars

---------------------------------------------------------------------------
(* ScoreSpec: the scoring step of index applied to one required-skill list *)

\* skills_found lists the extractor produces
FoundLists == {ExtractSkills(Lower(t)) : t \in PageTexts}

RequiredLists ==
    SeqsUpTo({"python", "c", "sql"}, MaxReqLen) \cup {JOB_ROLES[i][2] : i \in 1..Len(JOB_ROLES)}

ScoreInit ==
    /\ WebInit
    /\ args \in [skills_found : FoundLists, req_skills : RequiredLists]
    /\ result = NoResult

Score ==
    /\ ~result.computed
    /\ result' = [computed |-> TRUE, out |-> ScoreOf(args.skills_found, args.req_skills)]
    /\ UNCHANGED args
    /\ WebUnchanged

ScoreNext == Score

ScoreSpec == ScoreInit /\ [][ScoreNext]_vars

---------------------------------------------------------------------------
(* FeedbackSpec: the feedback chain of compute_insights, on every score of   *)
(* 0..100 and inside compute_insights on the lists the extractor produces   *)

FullScore == 100

FeedbackInit ==
    /\ WebInit
    /\ args \in {[kind |-> "score", resume_score |-> n, skills_found |-> << >>] :
                    n \in 0..FullScore}
                \cup {[kind |-> "skills", resume_score |-> 0, skills_found |-> f] :
                    f \in FoundLists}
    /\ result = NoResult

ApplyFeedback ==
    /\ ~result.computed
    /\ args.kind = "score"
    /\ result' = [computed |-> TRUE, resume_score |-> args.resume_score,
                  feedback |-> Feedback(args.resume_score)]
    /\ UNCHANGED args
    /\ WebUnchanged

ApplyInsights ==
    /\ ~result.computed
    /\ args.kind = "skills"
    /\ LET insights == compute_insights(args.skills_found,
                                        SortedRoles(args.skills_found, 0, "all"))
       IN  result' = [computed |-> TRUE,
                      resume_score |-> DictGet(insights, "resume_score", 0),
                      feedback |-> DictGet(insights, "feedback", "")]
    /\ UNCHANGED args
    /\ WebUnchanged

FeedbackNext == ApplyFeedback \/ ApplyInsights

FeedbackSpec == FeedbackInit /\ [][FeedbackNext]_vars

---------------------------------------------------------------------------
(* ChatSpec: chat applied to one message and one session *)

ChatInit ==
    /\ WebInit
    /\ args \in [message : ChatMessages, session : ChatSessions]
    /\ result = NoResult

Ask ==
    /\ ~result.computed
    /\ result' = [computed |-> TRUE, out |-> ChatReply(args.message, args.session)]
    /\ UNCHANGED args
    /\ WebUnchanged

ChatNext == Ask

ChatSpec == ChatInit /\ [][ChatNext]_vars

---------------------------------------------------------------------------
(* Spec: the application serving one browser session *)

Usernames == {"ann", "bob"}

\* a row of the User table; password stands for the hash check_password compares
UserRow(username) == CHOOSE i \in 1..Len(users) : users[i].username = username

Registered(username) == \E i \in 1..Len(users) : users[i].username = username

\* what @login_required answers to an anonymous request
LoginRedirect(handler) == [handler |-> handler, status |-> 302, location |-> "login"]

Funcs == UNCHANGED <<args, result>>

Register(username, password) ==
    LET u == Strip(username)
        pw == Strip(password)
    IN  /\ IF u = "" \/ pw = ""
           THEN /\ response' = [handler |-> "register", status |-> 200,
                                error |-> "Username and password required"]
                /\ UNCHANGED users
           ELSE IF Registered(u)
           THEN /\ response' = [handler |-> "register", status |-> 200,
                                error |-> "Username already exists"]
                /\ UNCHANGED users
           ELSE /\ users' = Append(users, [username |-> u, password |-> pw])
                /\ response' = [handler |-> "register", status |-> 302, location |-> "login"]
        /\ UNCHANGED <<analyses, current_user, session, cache_owner>>
        /\ Funcs

Login(username, password) ==
    LET u == Strip(username)
        pw == Strip(password)
    IN  /\ IF Registered(u) /\ users[UserRow(u)].password = pw
           THEN /\ current_user' = u
                /\ response' = [handler |-> "login", status |-> 302, location |-> "index"]
           ELSE /\ response' = [handler |-> "login", status |-> 200,
                                error |-> "Invalid username or password"]
                /\ UNCHANGED current_user
        /\ UNCHANGED <<users, analyses, session, cache_owner>>
        /\ Funcs

\* logout_user() drops the login keys of the session and no other key
Logout ==
    /\ IF current_user = Anonymous
       THEN /\ response' = LoginRedirect("logout")
            /\ UNCHANGED current_user
       ELSE /\ current_user' = Anonymous
            /\ response' = [handler |-> "logout", status |-> 302, location |-> "index"]
    /\ UNCHANGED <<users, analyses, session, cache_owner>>
    /\ Funcs

IndexGet ==
    /\ response' = [handler |-> "index", method |-> "GET", status |-> 200,
                    skills |-> << >>, roles |-> << >>, show_bars |-> FALSE,
                    insights |-> << >>]
    /\ UNCHANGED <<users, analyses, current_user, session, cache_owner>>
    /\ Funcs

\* the record and the session keys written without the is_authenticated test
IndexPost_any_user(file, form) ==
    LET out == Analyze(file, form)
        stores == out.status = 200
    IN  /\ stores => Len(analyses) < MaxAnalyses
        /\ response' = [handler |-> "index", method |-> "POST", status |-> out.status,
                        skills |-> out.skills, roles |-> out.roles,
                        show_bars |-> out.show_bars, insights |-> out.insights]
        /\ IF stores
           THEN /\ analyses' = Append(analyses,
                                      [user_id |-> current_user,
                                       filename |-> file.filename,
                                       skills_found |-> JsonStrings(out.skills),
                                       roles_scores |-> JsonPairs(out.roles)])
                /\ session' = SessionAfter(session, out)
                /\ cache_owner' = current_user
           ELSE UNCHANGED <<analyses, session, cache_owner>>
        /\ UNCHANGED <<users, current_user>>
        /\ Funcs

IndexPost(file, form) ==
    LET out == Analyze(file, form)
        stores == out.status = 200 /\ current_user # Anonymous
    IN  /\ stores => Len(analyses) < MaxAnalyses
        /\ response' = [handler |-> "index", method |-> "POST", status |-> out.status,
                        skills |-> out.skills, roles |-> out.roles,
                        show_bars |-> out.show_bars, insights |-> out.insights]
        /\ IF stores
           THEN /\ analyses' = Append(analyses,
                                      [user_id |-> current_user,
                                       filename |-> file.filename,
                                       skills_found |-> JsonStrings(out.skills),
                                       roles_scores |-> JsonPairs(out.roles)])
                /\ session' = SessionAfter(session, out)
                /\ cache_owner' = current_user
           ELSE UNCHANGED <<analyses, session, cache_owner>>
        /\ UNCHANGED <<users, current_user>>
        /\ Funcs

Chat(message) ==
    /\ IF current_user = Anonymous
       THEN response' = LoginRedirect("chat")
       ELSE LET out == ChatReply(message, session)
            IN  response' = [handler |-> "chat", status |-> out.status, message |-> message,
                             rule |-> out.rule, reply |-> out.reply, raised |-> out.raised]
    /\ UNCHANGED <<users, analyses, current_user, session, cache_owner>>
    /\ Funcs

\* session.get(key) of charts: None when the key is not set
None == << >>

Charts ==
    /\ IF current_user = Anonymous
       THEN response' = LoginRedirect("charts")
       ELSE response' = [handler |-> "charts", status |-> 200,
                         roles_chart |-> DictGet(session, "roles_chart", None),
                         skills_chart |-> DictGet(session, "skills_chart", None)]
    /\ UNCHANGED <<users, analyses, current_user, session, cache_owner>>
    /\ Funcs

Report ==
    /\ IF current_user = Anonymous
       THEN response' = LoginRedirect("report")
       ELSE response' = [handler |-> "report", status |-> 200,
                         insights |-> DictGet(session, "insights", << >>)]
    /\ UNCHANGED <<users, analyses, current_user, session, cache_owner>>
    /\ Funcs

\* the PDF is built from insights alone
DownloadReport ==
    /\ IF current_user = Anonymous
       THEN response' = LoginRedirect("download_report")
       ELSE IF DictGet(session, "insights", << >>) = << >>
       THEN response' = [handler |-> "download_report", status |-> 302, location |-> "index"]
       ELSE response' = [handler |-> "download_report", status |-> 200,
                         download_name |-> "resume_analysis_report.pdf",
                         insights |-> DictGet(session, "insights", << >>)]
    /\ UNCHANGED <<users, analyses, current_user, session, cache_owner>>
    /\ Funcs

\* requests of the browser session
Passwords == {"pw"}

Uploads == {Resume(<< "Java" >>), Resume(<< AllSkillsText >>), Unreadable, NoUpload}

SessionMessages ==
    { "", "what skills did you detect", "Which roles match?", "improve", "market trends",
      "hello" }

Init ==
    /\ WebInit
    /\ args = << >>
    /\ result = NoResult

Next ==
    \/ \E u \in Usernames \cup {""}, pw \in Passwords : Register(u, pw)
    \/ \E u \in Usernames, pw \in Passwords \cup {"bad"} : Login(u, pw)
    \/ Logout
    \/ IndexGet
    \/ \E file \in Uploads : IndexPost(file, DefaultForm)
    \/ \E message \in SessionMessages : Chat(message)
    \/ Charts
    \/ Report
    \/ DownloadReport

Spec == Init /\ [][Next]_vars

---------------------------------------------------------------------------
(* Properties *)

SkillIndex(s) == CHOOSE i \in 1..Len(SKILLS) : SKILLS[i] = s

RoleIndex(r) == CHOOSE i \in 1..Len(JOB_ROLES) : JOB_ROLES[i][1] = r

Analyzed == result.computed /\ result.out.status = 200

\* C1: the skills found in a submitted text are exactly the SKILLS tokens that occur
\* in it as substrings, each once, in SKILLS order; an empty text gives none.
C1_SkillExtraction ==
    Analyzed =>
        LET T == extract_text(args.file)
            found == result.out.skills
        IN  /\ \A i \in 1..Len(found) : found[i] \in Range(SKILLS) /\ Contains(T, found[i])
            /\ \A s \in Range(SKILLS) : Contains(T, s) => s \in Range(found)
            /\ \A i, j \in 1..Len(found) :
                   i < j => SkillIndex(found[i]) < SkillIndex(found[j])
            /\ (T = "" => found = << >>)

\* "c" occurs in the text before "java" and only inside another word, and is
\* listed after it
C1_Witness ==
    /\ Analyzed
    /\ args.file.pages = << "Scala", "Java" >>
    /\ result.out.skills = << "java", "c" >>

RankedBefore(x, y) ==
    x[2] > y[2] \/ (x[2] = y[2] /\ RoleIndex(x[1]) < RoleIndex(y[1]))

\* C3: sorted_roles is the first k (1 for top1, 3 for top3, all for all) of the roles
\* scoring at least the minimum, by score descending, ties in JOB_ROLES order.
C3_RankedRoles ==
    Analyzed /\ FormGet(args.form, "max_roles", "all") \in {"all", "top1", "top3"} =>
        LET cap == FormGet(args.form, "max_roles", "all")
            roles == result.out.roles
            qualifying == {rs \in Range(result.out.role_scores) : rs[2] >= result.out.min_score}
            k == IF cap = "top1" THEN 1 ELSE IF cap = "top3" THEN 3
                 ELSE Cardinality(qualifying)
        IN  /\ Range(roles) \subseteq qualifying
            /\ \A i, j \in 1..Len(roles) : i < j => RankedBefore(roles[i], roles[j])
            /\ Len(roles) = IF Cardinality(qualifying) < k THEN Cardinality(qualifying) ELSE k
            /\ \A q \in qualifying \ Range(roles) :
                   \A i \in 1..Len(roles) : RankedBefore(roles[i], q)

\* two roles tie for the top, top1 keeps the one defined first, the filter drops
\* the third
C3_Witness ==
    /\ Analyzed
    /\ args.form.max_roles = "top1"
    /\ result.out.min_score = 25
    /\ result.out.role_scores =
           << << "Software Developer", 0 >>, << "Web Developer", 25 >>, << "Data Scientist", 25 >> >>
    /\ result.out.roles = << << "Web Developer", 25 >> >>

ScoreFor(role) == DictGet(result.out.role_scores, role, -1)

\* C4 as claimed: a text containing "python sql machine learning" yields exactly
\* {python, sql, machine learning}, Data Scientist 75 and Software Developer 33.
C4_ReferenceScenarioAsClaimed ==
    Analyzed /\ Contains(extract_text(args.file), ReferenceText) =>
        /\ Range(result.out.skills) = {"python", "sql", "machine learning"}
        /\ ScoreFor("Data Scientist") = 75
        /\ ScoreFor("Software Developer") = 33

\* C4 amended: a text containing "python sql machine learning" yields at least
\* python, c (inside "machine"), sql and machine learning, Data Scientist at least
\* 75 and Software Developer at least 33; the text that is exactly that phrase
\* yields exactly [python, c, sql, machine learning], 75 and 33.
C4_ReferenceScenario ==
    Analyzed /\ Contains(extract_text(args.file), ReferenceText) =>
        /\ {"python", "c", "sql", "machine learning"} \subseteq Range(result.out.skills)
        /\ ScoreFor("Data Scientist") >= 75
        /\ ScoreFor("Software Developer") >= 33
        /\ extract_text(args.file) = ReferenceText =>
               /\ result.out.skills = << "python", "c", "sql", "machine learning" >>
               /\ ScoreFor("Data Scientist") = 75
               /\ ScoreFor("Software Developer") = 33

C4_Witness ==
    /\ Analyzed
    /\ extract_text(args.file) = ReferenceText
    /\ "c" \in Range(result.out.skills)
    /\ ScoreFor("Data Scientist") = 75
    /\ ScoreFor("Software Developer") = 33

\* C5: the feedback string is decided by resume_score alone: the first string on
\* [0,30), the second on [30,60), the third on [60,80), the fourth on [80,100].
C5_FeedbackBands ==
    result.computed =>
        LET n == result.resume_score
        IN  /\ n \in 0..29 => result.feedback = FeedbackLow
            /\ n \in 30..59 => result.feedback = FeedbackMid
            /\ n \in 60..79 => result.feedback = FeedbackStrong
            /\ n \in 80..100 => result.feedback = FeedbackTop
            /\ n \in 0..100
            /\ Cardinality({FeedbackLow, FeedbackMid, FeedbackStrong, FeedbackTop}) = 4

\* a band boundary reached by the chain alone
C5_Witness ==
    /\ result.computed
    /\ args.kind = "score"
    /\ result.resume_score = 30
    /\ result.feedback = FeedbackMid

ContextEmpty == DictGet(session, "insights", << >>) = << >>

Posted(r) == r.handler = "index" /\ r.method = "POST"

\* C6: a record is inserted exactly by a POST of an authenticated user whose text
\* extraction succeeded, one record per such request; stored records never change;
\* a failed extraction and an anonymous submission leave table and session alone.
C6_RecordStore ==
    [][LET stored == Posted(response') /\ response'.status = 200 /\ current_user # Anonymous
       IN  /\ Len(analyses') >= Len(analyses)
           /\ SubSeq(analyses', 1, Len(analyses)) = analyses
           /\ stored =>
                  /\ Len(analyses') = Len(analyses) + 1
                  /\ analyses'[Len(analyses')].user_id = current_user
           /\ ~stored => analyses' = analyses
           /\ Posted(response') /\ response'.status = 500 => session' = session
           /\ Posted(response') /\ current_user = Anonymous => session' = session
      ]_vars

\* a logged-in user's unreadable upload after a stored one: one record, cache kept
C6_Witness ==
    /\ Posted(response)
    /\ response.status = 500
    /\ current_user # Anonymous
    /\ Len(analyses) = 1
    /\ ~ContextEmpty

\* C7 as claimed: the cache is cleared per login, so a logged-in user who has not
\* submitted since logging in never has another user's cached data in the session
\* read by /chat, /report, /charts and /download-report.
C7_CacheClearedPerLogin ==
    current_user # Anonymous /\ cache_owner # current_user => session = << >>

\* the first rule of the cascade whose trigger matches a non-empty lower-cased message
FirstMatchingRule(m) ==
    LET triggers ==
            << << "career_goal", AnyIn(career_keywords, m) \/ StartsWith(m, "how to") >>,
               << "resume_analysis", AnyIn(analysis_keywords, m) >>,
               << "role_matching", AnyIn(role_keywords, m) >>,
               << "skill_gap", AnyIn(gap_keywords, m) >>,
               << "general_advice", AnyIn(advice_keywords, m) >>,
               << "market_trend", AnyIn(market_keywords, m) >>,
               << "learning", AnyIn(learning_keywords, m) >>,
               << "fallback", TRUE >> >>
    IN  triggers[CHOOSE i \in 1..Len(triggers) :
                     triggers[i][2] /\ \A j \in 1..(i - 1) : ~triggers[j][2]][1]

AskedText == Strip(IF args.message = Absent THEN "" ELSE args.message)

\* C8 as claimed: every message is answered, by the first rule of the cascade whose
\* trigger matches; a message with "improve" that no earlier rule takes is answered
\* by the skill-gap rule; the fallback reply echoes the message.
C8_FirstMatchingRuleReplies ==
    result.computed =>
        LET rule == IF AskedText = "" THEN "empty" ELSE FirstMatchingRule(Lower(AskedText))
        IN  /\ result.out.status = 200
            /\ result.out.rule = rule
            /\ Contains(Lower(AskedText), "improve")
                   /\ rule \notin {"career_goal", "resume_analysis", "role_matching"}
                   => result.out.rule = "skill_gap"
            /\ rule = "fallback" =>
                   Contains(result.out.reply, "Your question: '" \o AskedText \o "'")

\* C9: with no cached analysis a logged-in user's chat question gets the branch's
\* upload prompt (the static list for a market question), /report and /charts
\* render empty data, /download-report redirects to the submit page; none fails.
C9_NoAnalysisDegrades ==
    current_user # Anonymous /\ ContextEmpty =>
        /\ response.handler = "chat" =>
               /\ response.status = 200
               /\ response.rule = "resume_analysis" => response.reply = NoResumePrompt
               /\ response.rule = "role_matching" => response.reply = NoRolesPrompt
               /\ response.rule = "skill_gap" => response.reply = NoGapsPrompt
               /\ response.rule = "market_trend" => response.reply = StaticTrends
               /\ response.message = "what skills did you detect" =>
                      response.reply = NoResumePrompt
               /\ response.message = "Which roles match?" => response.reply = NoRolesPrompt
               /\ response.message = "improve" => response.reply = NoGapsPrompt
               /\ response.message = "market trends" => response.reply = StaticTrends
        /\ response.handler = "report" =>
               response.status = 200 /\ response.insights = << >>
        /\ response.handler = "charts" =>
               /\ response.status = 200
               /\ response.roles_chart = None
               /\ response.skills_chart = None
        /\ response.handler = "download_report" =>
               response.status = 302 /\ response.location = "index"

C9_Witness ==
    /\ current_user # Anonymous
    /\ ContextEmpty
    /\ response.handler = "chat"
    /\ response.message = "what skills did you detect"
    /\ response.reply = NoResumePrompt

\* C10 as claimed: with a cached InsightBundle a resume-analysis question is always
\* answered, by a summary of score, strengths, weaknesses and feedback.
C10_AnalysisSummaryNeverFails ==
    /\ current_user # Anonymous
    /\ ~ContextEmpty
    /\ response.handler = "chat"
    /\ response.rule = "resume_analysis"
    => /\ response.status = 200
       /\ Contains(response.reply,
              "Resume Score: "
              \o ToString(DictGet(DictGet(session, "insights", << >>), "resume_score", 0))
              \o "%")
       /\ Contains(response.reply,
              "Feedback: " \o DictGet(DictGet(session, "insights", << >>), "feedback", ""))

\* C11 as claimed: with a cached InsightBundle a role-matching question is answered
\* by a list of the top matched roles with their scores, and a skill-gap question by
\* the missing skills of the top roles; neither request fails.
C11_RoleAndGapRepliesNeverFail ==
    /\ current_user # Anonymous
    /\ ~ContextEmpty
    /\ response.handler = "chat"
    /\ response.rule \in {"role_matching", "skill_gap"}
    => /\ response.status = 200
       /\ response.rule = "role_matching" =>
              \A i \in 1..Len(Take(DictGet(DictGet(session, "insights", << >>),
                                           "role_comparison", << >>), 3)) :
                  Contains(response.reply,
                      DictGet(DictGet(session, "insights", << >>),
                              "role_comparison", << >>)[i].role)
       /\ response.rule = "skill_gap" => response.reply # NoGapsPrompt

\* C12: the skills and the ranked roles of a submission, serialized as the stored
\* record holds them and reloaded, are the same values, and compute_insights of the
\* reloaded values is the InsightBundle of the submission.
C12_RoundTrip ==
    Analyzed =>
        /\ JsonLoadStrings(JsonStrings(result.out.skills)) = result.out.skills
        /\ JsonLoadPairs(JsonPairs(result.out.roles)) = result.out.roles
        /\ compute_insights(JsonLoadStrings(JsonStrings(result.out.skills)),
                            JsonLoadPairs(JsonPairs(result.out.roles)))
               = result.out.insights

\* a submission with three ranked roles and skills that hold a space and a "+"
C12_Witness ==
    /\ Analyzed
    /\ Len(result.out.roles) = 3
    /\ {"c++", "machine learning"} \subseteq Range(result.out.skills)
    /\ JsonPairs(result.out.roles)
           = "[[\"Software Developer\", 100], [\"Web Developer\", 100], [\"Data Scientist\", 100]]"
    /\ compute_insights(JsonLoadStrings(JsonStrings(result.out.skills)),
                        JsonLoadPairs(JsonPairs(result.out.roles)))
           = result.out.insights

\* the roadmap reply of the career-goal rule for a role
RoadmapFor(role) == RoleReply(role)

\* the reply that asks the user to choose a role
ChoosePrompt == RoleReply(NoRole)

\* some role name, lower-cased, is contained in the message
SomeRoleContained(m) == \E i \in 1..Len(JOB_ROLES) : Contains(m, Lower(JOB_ROLES[i][1]))

\* C13 as claimed: on a career-goal message the best-ratio role is accepted only at a
\* ratio of at least 0.35; below that the first role whose name the message contains
\* is taken; with every ratio below 0.35 and no role name contained the reply asks
\* the user to choose a role and gives no roadmap.
C13_CareerRoleResolution ==
    result.computed /\ result.out.rule = "career_goal" =>
        LET m == Lower(AskedText)
            best == BestByRatio(JOB_ROLES, m, << NoRole, RatioZero >>)
            accepted == best[1] # NoRole /\ ~RatioGreater(RatioThreshold, best[2])
        IN  /\ accepted => result.out.reply = RoadmapFor(best[1])
            /\ ~accepted /\ SomeRoleContained(m) =>
                   result.out.reply = RoadmapFor(FirstContained(m, NoRole))
            /\ ~accepted /\ ~SomeRoleContained(m) => result.out.reply = ChoosePrompt

\* the number of roles that require a skill
RolesRequiring(skill) ==
    Cardinality({r \in 1..Len(JOB_ROLES) : skill \in Range(JOB_ROLES[r][2])})

\* where the loops over the roles and their required skills first meet a skill
FirstSeen(skill) ==
    CHOOSE p \in 1..Len(RequiredSkills(JOB_ROLES)) :
        /\ RequiredSkills(JOB_ROLES)[p] = skill
        /\ \A q \in 1..(p - 1) : RequiredSkills(JOB_ROLES)[q] # skill

\* a comes before b in the ranking of missing skills
RankedAhead(a, b) ==
    \/ RolesRequiring(a) > RolesRequiring(b)
    \/ RolesRequiring(a) = RolesRequiring(b) /\ FirstSeen(a) < FirstSeen(b)

\* the required skills that the found list lacks
MissingSkills(found) == Range(RequiredSkills(JOB_ROLES)) \ Range(found)

\* C14: weaknesses holds only required skills absent from the found list, each with
\* the number of roles requiring it, ranked by that number descending with ties in
\* first-seen order, cut to the first 5 of that ranking; it is empty when no
\* required skill is missing.
C14_Weaknesses ==
    Analyzed =>
        LET w == DictGet(result.out.insights, "weaknesses", << >>)
            missing == MissingSkills(result.out.skills)
        IN  /\ Len(w) = IF Cardinality(missing) < 5 THEN Cardinality(missing) ELSE 5
            /\ \A i \in 1..Len(w) :
                   /\ w[i][1] \in missing
                   /\ w[i][2] = RolesRequiring(w[i][1])
            /\ \A i, j \in 1..Len(w) : i < j => RankedAhead(w[i][1], w[j][1])
            /\ \A s \in missing :
                   (\A i \in 1..Len(w) : w[i][1] # s) =>
                       \A i \in 1..Len(w) : RankedAhead(w[i][1], s)
            /\ missing = {} => w = << >>

\* a resume with only "java": python (two roles) leads, the ties follow in first-seen
\* order and the list is cut at 5
C14_Witness ==
    /\ Analyzed
    /\ result.out.skills = << "java" >>
    /\ DictGet(result.out.insights, "weaknesses", << >>)
           = << << "python", 2 >>, << "c++", 1 >>, << "html", 1 >>, << "css", 1 >>,
                << "javascript", 1 >> >>

\* the category the fallback menu advertises for each of its example questions
AdvertisedRule ==
    << << "What skills did you detect?", "resume_analysis" >>,
       << "How do I become a Data Scientist?", "career_goal" >>,
       << "What courses should I take?", "learning" >>,
       << "Which roles match my skills?", "role_matching" >>,
       << "What skills should I learn?", "skill_gap" >>,
       << "How do I improve my career?", "general_advice" >> >>

\* C15 as claimed: every example question of the fallback menu is routed by the
\* cascade to the category the menu advertises it for.
C15_MenuExamplesRouted ==
    result.computed =>
        \A i \in 1..Len(AdvertisedRule) :
            args.message = AdvertisedRule[i][1] => result.out.rule = AdvertisedRule[i][2]

============================================================================
